---- MODULE Spec2Model ----
(***************************************************************************)
(* Model of the fuzz-instruction source generator of trident               *)
(* (crates/client/src/source_code_generators/fuzz_instructions_generator). *)
(*                                                                         *)
(* Identifiers and names are sequences of one-character strings, so that   *)
(* case conversion, concatenation (push_str, format_ident!) and ordering   *)
(* are computed character by character as the code computes them.          *)
(***************************************************************************)
EXTENDS Integers, Sequences, FiniteSets, TLC

VARIABLES
    idls,                          \* the &[Idl] argument (read-only)
    pc,                            \* position inside generate_source_code
    idx,                           \* index of the next idl of the loop at line 23
    instructions_mappings,         \* HashMap<String, u8>, line 16
    accounts_mappings,             \* HashMap<String, u8>, line 17
    all_instructions,              \* Vec<syn::Variant>, line 10
    all_instruction_inputs,        \* Vec<syn::ItemStruct>, line 11
    all_instructions_ixops_impls,  \* Vec<syn::ItemImpl>, line 12
    all_fuzz_accounts,             \* Vec<syn::FnArg>, line 13
    panic_msg,                     \* message of the panic that ended the run
    output                         \* the returned module text (its sections)

vars == <<idls, pc, idx, instructions_mappings, accounts_mappings,
          all_instructions, all_instruction_inputs,
          all_instructions_ixops_impls, all_fuzz_accounts, panic_msg, output>>

-----------------------------------------------------------------------------
(* Bounds of the model.                                                    *)

\* schemas in one run
MaxIdls == 2
\* instructions in the whole schema set
MaxInstrs == 3
\* account references in the whole schema set (account-varied inputs)
MaxRefs == 3
\* wrapper layers (Option, Vec, Array) above the leaf of an argument type
MaxWraps == 6
\* wrapper layers above the leaf of an argument type (position-varied inputs)
MaxGenericWraps == 2

(* Program constants.                                                      *)

\* `if nestings >= 5` in idl_type_to_syn_type
NestingLimit == 5
\* the occurrence counters are u8
U8Modulus == 256

-----------------------------------------------------------------------------
(* Characters, in ASCII order: upper case < '_' < lower case.              *)

UpperChars == <<"A", "B", "C", "I", "X">>
LowerChars == <<"a", "b", "c", "i", "x">>
AsciiOrder == UpperChars \o <<"_">> \o LowerChars \o <<"~">>

IsUpper(c) == \E k \in 1..Len(UpperChars) : UpperChars[k] = c
IsLower(c) == \E k \in 1..Len(LowerChars) : LowerChars[k] = c

IndexIn(s, c) == CHOOSE k \in 1..Len(s) : s[k] = c

to_uppercase(c) == IF IsLower(c) THEN UpperChars[IndexIn(LowerChars, c)] ELSE c
to_lowercase(c) == IF IsUpper(c) THEN LowerChars[IndexIn(UpperChars, c)] ELSE c

\* byte value order of two characters (characters outside the table sort last)
CharCode(c) ==
    IF \E k \in 1..Len(AsciiOrder) : AsciiOrder[k] = c
    THEN IndexIn(AsciiOrder, c) ELSE Len(AsciiOrder)

\* str::cmp / Ident::cmp: lexicographic on the characters, a proper prefix first
RECURSIVE StrLess(_, _)
StrLess(s, t) ==
    IF t = <<>> THEN FALSE
    ELSE IF s = <<>> THEN TRUE
    ELSE IF CharCode(Head(s)) # CharCode(Head(t))
         THEN CharCode(Head(s)) < CharCode(Head(t))
         ELSE StrLess(Tail(s), Tail(t))

-----------------------------------------------------------------------------
(* convert_case: split a name into words, then join them in the target    *)
(* case. Word boundaries: '_' (dropped), lower->Upper, and the acronym     *)
(* boundary Upper|Upper lower.                                             *)

RECURSIVE SplitWords(_, _, _, _)
SplitWords(s, k, cur, words) ==
    LET flush == IF cur = <<>> THEN words ELSE Append(words, cur) IN
    IF k > Len(s) THEN flush
    ELSE LET c == s[k] IN
         IF c = "_" THEN SplitWords(s, k + 1, <<>>, flush)
         ELSE IF cur # <<>> /\ IsLower(cur[Len(cur)]) /\ IsUpper(c)
              THEN SplitWords(s, k + 1, <<c>>, flush)
         ELSE IF /\ cur # <<>> /\ IsUpper(cur[Len(cur)]) /\ IsUpper(c)
                 /\ k < Len(s) /\ IsLower(s[k + 1])
              THEN SplitWords(s, k + 1, <<c>>, flush)
         ELSE SplitWords(s, k + 1, Append(cur, c), words)

Words(s) == SplitWords(s, 1, <<>>, <<>>)

Capitalize(w) ==
    [k \in 1..Len(w) |-> IF k = 1 THEN to_uppercase(w[k]) ELSE to_lowercase(w[k])]
Lowercase(w) == [k \in 1..Len(w) |-> to_lowercase(w[k])]

RECURSIVE JoinCamel(_)
JoinCamel(ws) ==
    IF ws = <<>> THEN <<>> ELSE Capitalize(Head(ws)) \o JoinCamel(Tail(ws))

RECURSIVE JoinSnake(_)
JoinSnake(ws) ==
    IF ws = <<>> THEN <<>>
    ELSE IF Len(ws) = 1 THEN Lowercase(Head(ws))
    ELSE Lowercase(Head(ws)) \o <<"_">> \o JoinSnake(Tail(ws))

\* name.to_case(Case::UpperCamel)
to_case_UpperCamel(s) == JoinCamel(Words(s))
\* name.to_case(Case::Snake)
to_case_Snake(s) == JoinSnake(Words(s))

-----------------------------------------------------------------------------
(* Schema types (IdlType). A type is the chain of its layers, outermost    *)
(* first, ending in a leaf: <<"Option", "Array", "U8">> is                 *)
(* Option<[u8; N]>. "Array" has a literal length, "ArrayGeneric" a generic *)
(* parameter as its length. "Defined" is a leaf: the code never reads its  *)
(* generics.                                                               *)

WrapKinds == {"Option", "Vec", "Array", "ArrayGeneric"}
LeafKinds == {"U8", "String", "Bytes", "Pubkey", "Defined", "Generic"}

\* the syn::Type written for each primitive kind
PrimitiveTarget(k) ==
    CASE k = "U8" -> "u8"
      [] k = "String" -> "String"
      [] k = "Bytes" -> "Vec<u8>"
      [] k = "Pubkey" -> "AccountId"

TypePanic(msg) == [ok |-> FALSE, ty |-> <<>>, is_custom |-> FALSE, msg |-> msg]
TypeOk(ty, custom) == [ok |-> TRUE, ty |-> ty, is_custom |-> custom, msg |-> ""]

\* the nestings argument of the three recursive calls (lines 386, 390, 394)
InnerNestings(nestings) == 0

\* idl_type_to_syn_type whose Generic and generic-length arms write a
\* placeholder type instead of panicking
RECURSIVE idl_type_to_syn_type_GenericDegraded(_, _)
idl_type_to_syn_type_GenericDegraded(idl_type, nestings) ==
    IF nestings >= NestingLimit
    THEN TypePanic("No more than 5 nestings allowed")
    ELSE LET k == Head(idl_type)
             inner == idl_type_to_syn_type_GenericDegraded(Tail(idl_type),
                                                           InnerNestings(nestings))
         IN
         CASE k \in {"U8", "String", "Bytes", "Pubkey"} ->
                  TypeOk(<<PrimitiveTarget(k)>>, FALSE)
           [] k = "Option" ->
                  IF inner.ok THEN TypeOk(<<"Option">> \o inner.ty, inner.is_custom)
                  ELSE inner
           [] k = "Vec" ->
                  IF inner.ok THEN TypeOk(<<"Vec">> \o inner.ty, inner.is_custom)
                  ELSE inner
           [] k \in {"Array", "ArrayGeneric"} ->
                  IF inner.ok THEN TypeOk(<<"[_;N]">> \o inner.ty, inner.is_custom)
                  ELSE inner
           [] k = "Defined" -> TypeOk(<<"Defined">>, TRUE)
           [] k = "Generic" -> TypeOk(<<"T">>, FALSE)

RECURSIVE idl_type_to_syn_type(_, _)
idl_type_to_syn_type(idl_type, nestings) ==
    IF nestings >= NestingLimit
    THEN TypePanic("No more than 5 nestings allowed")
    ELSE LET k == Head(idl_type)
             inner == idl_type_to_syn_type(Tail(idl_type), InnerNestings(nestings))
         IN
         CASE k \in {"U8", "String", "Bytes", "Pubkey"} ->
                  TypeOk(<<PrimitiveTarget(k)>>, FALSE)
           [] k = "Option" ->
                  IF inner.ok THEN TypeOk(<<"Option">> \o inner.ty, inner.is_custom)
                  ELSE inner
           [] k = "Vec" ->
                  IF inner.ok THEN TypeOk(<<"Vec">> \o inner.ty, inner.is_custom)
                  ELSE inner
           [] k = "Array" ->
                  IF inner.ok THEN TypeOk(<<"[_;N]">> \o inner.ty, inner.is_custom)
                  ELSE inner
           [] k = "ArrayGeneric" ->
                  IF inner.ok THEN TypePanic("Generic within Array len not supported")
                  ELSE inner
           [] k = "Defined" -> TypeOk(<<"Defined">>, TRUE)
           [] k = "Generic" -> TypePanic("Generic currently not supported")

-----------------------------------------------------------------------------
(* HashMap<String, u8>: a function from the keys present to their counts.  *)

EmptyMap == [k \in {} |-> 0]

MapGet(m, k, default) == IF k \in DOMAIN m THEN m[k] ELSE default

\* *m.entry(k).or_insert(0) += 1   (u8 arithmetic)
MapIncrement(m, k) ==
    [x \in (DOMAIN m) \cup {k} |->
        IF x = k THEN (MapGet(m, k, 0) + 1) % U8Modulus ELSE m[x]]

-----------------------------------------------------------------------------
(* get_unique_accounts_n_instructions (lines 58-90).                       *)
(* A counting state is [ok, ins, acc, seen, msg]; ok = FALSE after a panic.*)

\* CountAccountName without the seen_accounts test
CountAccountName_NoSeen(account_name, st) ==
    [st EXCEPT !.acc = MapIncrement(st.acc, account_name),
               !.seen = st.seen \cup {account_name}]

\* lines 81-86: count the account once per idl
CountAccountName(account_name, st) ==
    IF account_name \notin st.seen
    THEN [st EXCEPT !.acc = MapIncrement(st.acc, account_name),
                    !.seen = st.seen \cup {account_name}]
    ELSE st

\* CountAccountItem skipping a composite account instead of panicking
CountAccountItem_SkipComposite(account, st) ==
    IF account.kind = "Composite" THEN st
    ELSE CountAccountName(to_case_Snake(account.name), st)

\* lines 70-87: one account item of one instruction
CountAccountItem(account, st) ==
    IF account.kind = "Composite"
    THEN [st EXCEPT !.ok = FALSE, !.msg = "Composite Accounts are not supported yet!"]
    ELSE CountAccountName(to_case_Snake(account.name), st)

RECURSIVE CountAccounts(_, _)
CountAccounts(accounts, st) ==
    IF accounts = <<>> \/ ~st.ok THEN st
    ELSE CountAccounts(Tail(accounts), CountAccountItem(Head(accounts), st))

\* lines 66-88: one instruction
CountInstruction(instruction, st) ==
    CountAccounts(instruction.accounts,
        [st EXCEPT !.ins = MapIncrement(st.ins, to_case_UpperCamel(instruction.name))])

RECURSIVE CountInstructions(_, _)
CountInstructions(instructions, st) ==
    IF instructions = <<>> \/ ~st.ok THEN st
    ELSE CountInstructions(Tail(instructions), CountInstruction(Head(instructions), st))

RECURSIVE CountIdls(_, _)
CountIdls(schemas, st) ==
    IF schemas = <<>> \/ ~st.ok THEN st
    ELSE CountIdls(Tail(schemas),
             CountInstructions(Head(schemas).instructions, [st EXCEPT !.seen = {}]))

get_unique_accounts_n_instructions(schemas, ins_map, acc_map) ==
    CountIdls(schemas, [ok |-> TRUE, ins |-> ins_map, acc |-> acc_map,
                        seen |-> {}, msg |-> ""])

-----------------------------------------------------------------------------
(* Resolved instruction identifiers.                                       *)

\* ResolveInstructionName with the test `count >= 1`
ResolveInstructionName_OffByOne(idl, instruction, instruction_mappings) ==
    LET program_name == to_case_UpperCamel(idl.name)
        instruction_name == to_case_UpperCamel(instruction.name)
        count == MapGet(instruction_mappings, instruction_name, 1)
    IN IF count >= 1 THEN instruction_name \o program_name ELSE instruction_name

\* lines 102-108, 130-136, 215-222: append the program name when count > 1
ResolveInstructionName(idl, instruction, instruction_mappings) ==
    LET program_name == to_case_UpperCamel(idl.name)
        instruction_name == to_case_UpperCamel(instruction.name)
        count == MapGet(instruction_mappings, instruction_name, 1)
    IN IF count > 1 THEN instruction_name \o program_name ELSE instruction_name

\* get_instruction_variants (lines 93-118): one variant X(X) per instruction
get_instruction_variants(idl, instruction_mappings) ==
    [j \in 1..Len(idl.instructions) |->
        LET n == ResolveInstructionName(idl, idl.instructions[j], instruction_mappings)
        IN [name |-> n, payload |-> n]]

-----------------------------------------------------------------------------
(* get_instruction_inputs (lines 121-202).                                 *)

DataSuffix == <<"D", "a", "t", "a">>
AccountsSuffix == <<"A", "c", "c", "o", "u", "n", "t", "s">>
AccountsField == <<"a", "c", "c", "o", "u", "n", "t", "s">>
DataField == <<"d", "a", "t", "a">>

\* the first panic message among the results of a sequence, "" when none
RECURSIVE FirstPanic(_)
FirstPanic(rs) ==
    IF rs = <<>> THEN ""
    ELSE IF ~Head(rs).ok THEN Head(rs).msg ELSE FirstPanic(Tail(rs))

\* lines 144-157: the fields of the accounts record
InputAccountField(account) ==
    IF account.kind = "Composite"
    THEN [ok |-> FALSE, msg |-> "Composite Accounts are not supported yet!",
          name |-> <<>>, ty |-> <<>>]
    ELSE [ok |-> TRUE, msg |-> "", name |-> account.name, ty |-> <<"AccountId">>]

\* lines 159-168: the fields of the arguments record
InputParameter(arg) ==
    LET r == idl_type_to_syn_type(arg.ty, 0)
    IN [ok |-> r.ok, msg |-> r.msg, name |-> arg.name, ty |-> r.ty]

Field(f) == [name |-> f.name, ty |-> f.ty]

\* lines 129-200: the three records of one instruction, or the panic raised
InstructionInputs(idl, instruction, instruction_mappings) ==
    LET instruction_name == ResolveInstructionName(idl, instruction, instruction_mappings)
        accounts == [k \in 1..Len(instruction.accounts) |->
                        InputAccountField(instruction.accounts[k])]
        parameters == [k \in 1..Len(instruction.args) |->
                        InputParameter(instruction.args[k])]
        panic == IF FirstPanic(accounts) # "" THEN FirstPanic(accounts)
                 ELSE FirstPanic(parameters)
    IN IF panic # "" THEN [ok |-> FALSE, msg |-> panic, items |-> <<>>]
       ELSE [ok |-> TRUE, msg |-> "", items |->
              << [name |-> instruction_name,
                  fields |-> << [name |-> AccountsField,
                                 ty |-> instruction_name \o AccountsSuffix],
                                [name |-> DataField,
                                 ty |-> instruction_name \o DataSuffix] >>],
                 [name |-> instruction_name \o AccountsSuffix,
                  fields |-> [k \in 1..Len(accounts) |-> Field(accounts[k])]],
                 [name |-> instruction_name \o DataSuffix,
                  fields |-> [k \in 1..Len(parameters) |-> Field(parameters[k])]] >>]

RECURSIVE InputsFold(_, _, _, _)
InputsFold(idl, j, instruction_mappings, acc) ==
    IF j > Len(idl.instructions) \/ ~acc.ok THEN acc
    ELSE LET r == InstructionInputs(idl, idl.instructions[j], instruction_mappings)
         IN InputsFold(idl, j + 1, instruction_mappings,
                IF r.ok THEN [acc EXCEPT !.items = acc.items \o r.items]
                ELSE [ok |-> FALSE, msg |-> r.msg, items |-> <<>>])

get_instruction_inputs(idl, instruction_mappings) ==
    InputsFold(idl, 1, instruction_mappings, [ok |-> TRUE, msg |-> "", items |-> <<>>])

-----------------------------------------------------------------------------
(* get_instruction_ixops (lines 205-314).                                  *)

\* DataInitializer without the Pubkey arm
DataInitializer_NoPubkeyArm(arg) ==
    LET k == Head(arg.ty)
    IN CASE k \in {"String", "Bytes", "Vec"} ->
                [field |-> arg.name, expr |-> "self.data.field.clone()"]
         [] k = "Defined" -> [field |-> arg.name, expr |-> "todo!()"]
         [] OTHER -> [field |-> arg.name, expr |-> "self.data.field"]

\* lines 233-255: the initializer of one field of the instruction data,
\* chosen by the outermost kind of the argument's type
DataInitializer(arg) ==
    LET k == Head(arg.ty)
    IN CASE k = "Pubkey" -> [field |-> arg.name, expr |-> "todo!()"]
         [] k \in {"String", "Bytes", "Vec"} ->
                [field |-> arg.name, expr |-> "self.data.field.clone()"]
         [] k = "Defined" -> [field |-> arg.name, expr |-> "todo!()"]
         [] OTHER -> [field |-> arg.name, expr |-> "self.data.field"]

\* IxOpsImplName using the unsuffixed identifier for the impl
IxOpsImplName_Unsuffixed(idl, instruction, instruction_mappings) ==
    to_case_UpperCamel(instruction.name)

\* lines 264-309: `impl IxOps for <resolved name>`
IxOpsImplName(idl, instruction, instruction_mappings) ==
    ResolveInstructionName(idl, instruction, instruction_mappings)

\* InstructionIxOps whose instruction-data type is named by the resolved
\* (possibly suffixed) identifier
InstructionIxOps_SuffixLeaks(idl, instruction, instruction_mappings) ==
    LET module_name == idl.name
        instruction_ident_name_modified ==
            ResolveInstructionName(idl, instruction, instruction_mappings)
    IN [impl_for |-> IxOpsImplName(idl, instruction, instruction_mappings),
        ix_data |-> [module |-> module_name, path |-> "instruction",
                     name |-> instruction_ident_name_modified],
        program_id |-> [module |-> module_name, path |-> "ID"],
        data |-> [k \in 1..Len(instruction.args) |->
                     DataInitializer(instruction.args[k])],
        signers |-> "vec![todo!()]",
        acc_meta |-> "todo!()"]

\* lines 214-312: the stub of one instruction
InstructionIxOps(idl, instruction, instruction_mappings) ==
    LET module_name == idl.name
        instruction_ident_name == to_case_UpperCamel(instruction.name)
    IN [impl_for |-> IxOpsImplName(idl, instruction, instruction_mappings),
        ix_data |-> [module |-> module_name, path |-> "instruction",
                     name |-> instruction_ident_name],
        program_id |-> [module |-> module_name, path |-> "ID"],
        data |-> [k \in 1..Len(instruction.args) |->
                     DataInitializer(instruction.args[k])],
        signers |-> "vec![todo!()]",
        acc_meta |-> "todo!()"]

get_instruction_ixops(idl, instruction_mappings) ==
    [j \in 1..Len(idl.instructions) |->
        InstructionIxOps(idl, idl.instructions[j], instruction_mappings)]

-----------------------------------------------------------------------------
(* get_fuzz_accounts (lines 317-359).                                      *)

\* ResolveAccountName joining the two names without the underscore
ResolveAccountName_NoUnderscore(idl, single, accounts_map) ==
    LET program_name == to_case_Snake(idl.name)
        account_name == to_case_Snake(single.name)
        count == MapGet(accounts_map, account_name, 1)
    IN IF count > 1 THEN account_name \o program_name ELSE account_name

\* lines 333-341: the registry field name of one account of one idl
ResolveAccountName(idl, single, accounts_map) ==
    LET program_name == to_case_Snake(idl.name)
        account_name == to_case_Snake(single.name)
        count == MapGet(accounts_map, account_name, 1)
    IN IF count > 1 THEN account_name \o <<"_">> \o program_name ELSE account_name

\* lines 342-345: the storage slot
AccountStorage(single) == IF single.pda THEN "PdaStore" ELSE "todo!()"

\* line 346: fuzz_accounts.entry(name).or_insert(account)
EntryOrInsert(map, name, account) ==
    IF name \in DOMAIN map THEN map
    ELSE [x \in (DOMAIN map) \cup {name} |-> IF x = name THEN account ELSE map[x]]

\* lines 327-349: one account item folded into the per-idl HashMap
FuzzAccountItem(idl, account, accounts_map, st) ==
    IF account.kind = "Composite"
    THEN [st EXCEPT !.ok = FALSE, !.msg = "Composite Accounts are not supported yet!"]
    ELSE LET name == ResolveAccountName(idl, account, accounts_map)
         IN [st EXCEPT !.map = EntryOrInsert(st.map, name,
                                 [name |-> name, store |-> AccountStorage(account)])]

RECURSIVE FuzzAccountsOfInstruction(_, _, _, _)
FuzzAccountsOfInstruction(idl, accounts, accounts_map, st) ==
    IF accounts = <<>> \/ ~st.ok THEN st
    ELSE FuzzAccountsOfInstruction(idl, Tail(accounts), accounts_map,
             FuzzAccountItem(idl, Head(accounts), accounts_map, st))

RECURSIVE FuzzAccountsFold(_, _, _, _)
FuzzAccountsFold(idl, j, accounts_map, st) ==
    IF j > Len(idl.instructions) \/ ~st.ok THEN st
    ELSE FuzzAccountsFold(idl, j + 1, accounts_map,
             FuzzAccountsOfInstruction(idl, idl.instructions[j].accounts,
                                       accounts_map, st))

\* lines 321-353: the HashMap<Ident, FnArg> of one idl
FuzzAccountsMap(idl, accounts_map) ==
    FuzzAccountsFold(idl, 1, accounts_map,
                     [ok |-> TRUE, msg |-> "", map |-> EmptyMap])

\* the orders in which a HashMap with these keys may be iterated
IterationOrders(keys) ==
    {o \in [1..Cardinality(keys) -> keys] :
        \A a, b \in 1..Cardinality(keys) : a # b => o[a] # o[b]}

\* line 357: sort_by(|(k1, _), (k2, _)| k1.cmp(k2)), a stable sort
RECURSIVE InsertSorted(_, _)
InsertSorted(sorted, e) ==
    IF sorted = <<>> THEN <<e>>
    ELSE IF StrLess(e.name, Head(sorted).name) THEN <<e>> \o sorted
    ELSE <<Head(sorted)>> \o InsertSorted(Tail(sorted), e)

RECURSIVE SortFrom(_, _, _)
SortFrom(items, k, sorted) ==
    IF k > Len(items) THEN sorted
    ELSE SortFrom(items, k + 1, InsertSorted(sorted, items[k]))

\* sort_by_name without the sort: the entries stay in iteration order
sort_by_name_Unsorted(items) == items

sort_by_name(items) == SortFrom(items, 1, <<>>)

\* lines 355-358; `order` is the iteration order of fuzz_accounts.into_iter()
get_fuzz_accounts(idl, accounts_map, order) ==
    LET st == FuzzAccountsMap(idl, accounts_map)
    IN IF ~st.ok THEN [ok |-> FALSE, msg |-> st.msg, items |-> <<>>]
       ELSE [ok |-> TRUE, msg |-> "", items |->
                sort_by_name([k \in 1..Len(order) |-> st.map[order[k]]])]

-----------------------------------------------------------------------------
(* generate_source_code (lines 8-55).                                      *)

NoOutput == <<>>

\* lines 31-54: the module text, as its sections in the order they are written
ModuleDefinition(variants, inputs, impls, accounts) ==
    [uses |-> "use trident_client::fuzzing::*;",
     fuzz_instruction |-> [derives |-> <<"Arbitrary", "DisplayIx", "FuzzTestExecutor">>,
                           variants |-> variants],
     inputs |-> inputs,
     ixops |-> impls,
     fuzz_accounts |-> [derives |-> <<"Default">>, fields |-> accounts]]

\* line 20
GetUniqueAccountsNInstructions ==
    /\ pc = "start"
    /\ LET r == get_unique_accounts_n_instructions(idls, instructions_mappings,
                                                   accounts_mappings)
       IN /\ instructions_mappings' = r.ins
          /\ accounts_mappings' = r.acc
          /\ pc' = IF r.ok THEN "generate" ELSE "panicked"
          /\ panic_msg' = r.msg
    /\ UNCHANGED <<idls, idx, all_instructions, all_instruction_inputs,
                   all_instructions_ixops_impls, all_fuzz_accounts, output>>

\* lines 23-28: one iteration of `for idl in idls`. A panic inside one of the
\* four calls leaves the vectors extended by the calls before it.
GenerateIdl ==
    /\ pc = "generate"
    /\ idx <= Len(idls)
    /\ LET idl == idls[idx]
           variants == get_instruction_variants(idl, instructions_mappings)
           inputs == get_instruction_inputs(idl, instructions_mappings)
           impls == get_instruction_ixops(idl, instructions_mappings)
           keys == DOMAIN FuzzAccountsMap(idl, accounts_mappings).map
       IN \E order \in IterationOrders(keys) :
            LET accounts == get_fuzz_accounts(idl, accounts_mappings, order)
            IN /\ all_instructions' = all_instructions \o variants
               /\ all_instruction_inputs' =
                     IF inputs.ok THEN all_instruction_inputs \o inputs.items
                     ELSE all_instruction_inputs
               /\ all_instructions_ixops_impls' =
                     IF inputs.ok THEN all_instructions_ixops_impls \o impls
                     ELSE all_instructions_ixops_impls
               /\ all_fuzz_accounts' =
                     IF inputs.ok /\ accounts.ok
                     THEN all_fuzz_accounts \o accounts.items
                     ELSE all_fuzz_accounts
               /\ pc' = IF inputs.ok /\ accounts.ok THEN "generate" ELSE "panicked"
               /\ panic_msg' = IF ~inputs.ok THEN inputs.msg
                               ELSE IF ~accounts.ok THEN accounts.msg ELSE ""
               /\ idx' = IF inputs.ok /\ accounts.ok THEN idx + 1 ELSE idx
    /\ UNCHANGED <<idls, instructions_mappings, accounts_mappings, output>>

\* lines 30-54: render the module and return it
Render ==
    /\ pc = "generate"
    /\ idx > Len(idls)
    /\ output' = <<ModuleDefinition(all_instructions, all_instruction_inputs,
                                    all_instructions_ixops_impls, all_fuzz_accounts)>>
    /\ pc' = "done"
    /\ UNCHANGED <<idls, idx, instructions_mappings, accounts_mappings,
                   all_instructions, all_instruction_inputs,
                   all_instructions_ixops_impls, all_fuzz_accounts, panic_msg>>

-----------------------------------------------------------------------------
(* The inputs of a run: schema sets built from small name alphabets.       *)

ProgNames == {<<"b">>, <<"c">>}
InstrNames == {<<"i">>, <<"i", "_", "b">>, <<"i", "B">>}
AcctNames == {<<"a">>, <<"a", "_", "b">>}
ArgName == <<"x">>

Single(n, p) == [kind |-> "Single", name |-> n, pda |-> p]
Composite == [kind |-> "Composite", name |-> <<"x">>, pda |-> FALSE]
AccountItems == {Single(n, p) : n \in AcctNames, p \in BOOLEAN} \cup {Composite}

Instruction(n, accounts, args) == [name |-> n, accounts |-> accounts, args |-> args]
Idl(n, instructions) == [name |-> n, instructions |-> instructions]

RECURSIVE SumOver(_, _)
SumOver(f, S) ==
    IF S = {} THEN 0
    ELSE LET x == CHOOSE y \in S : TRUE IN f[x] + SumOver(f, S \ {x})

\* instructions per idl, at most MaxInstrs in the whole set
InstrCounts(k) ==
    {cnt \in [1..k -> 0..MaxInstrs] : SumOver(cnt, 1..k) <= MaxInstrs}
InstrSlots(k, cnt) == {s \in (1..k) \X (1..MaxInstrs) : s[2] <= cnt[s[1]]}
\* accounts per instruction (at least one), at most MaxRefs in the whole set
RefCounts(slots) ==
    {acnt \in [slots -> 1..MaxRefs] : SumOver(acnt, slots) <= MaxRefs}
RefSlots(slots, acnt) == {p \in slots \X (1..MaxRefs) : p[2] <= acnt[p[1]]}

\* lines 8-17: generate_source_code is entered with `schemas`; its vectors and
\* maps start empty
Enter(schemas) ==
    /\ idls' = schemas
    /\ pc' = "start"
    /\ idx' = 1
    /\ instructions_mappings' = EmptyMap
    /\ accounts_mappings' = EmptyMap
    /\ all_instructions' = <<>>
    /\ all_instruction_inputs' = <<>>
    /\ all_instructions_ixops_impls' = <<>>
    /\ all_fuzz_accounts' = <<>>
    /\ panic_msg' = ""
    /\ output' = NoOutput

\* schema sets that vary the instruction and program names
EnterNames ==
    /\ pc = "idle"
    /\ \E k \in 0..MaxIdls : \E cnt \in InstrCounts(k) :
      \E progs \in [1..k -> ProgNames] :
        \E nm \in [InstrSlots(k, cnt) -> InstrNames] :
          Enter([i \in 1..k |->
                     Idl(progs[i], [j \in 1..cnt[i] |->
                           Instruction(nm[<<i, j>>], <<>>, <<>>)])])

\* schema sets that vary the accounts: no idl without instructions, no
\* instruction without accounts, every instruction named "i"
EnterAccounts ==
    /\ pc = "idle"
    /\ \E k \in 1..MaxIdls : \E cnt \in {c \in InstrCounts(k) : \A i \in 1..k : c[i] >= 1} :
      \E progs \in [1..k -> ProgNames] :
        \E acnt \in RefCounts(InstrSlots(k, cnt)) :
          \E items \in [RefSlots(InstrSlots(k, cnt), acnt) -> AccountItems] :
            Enter([i \in 1..k |->
                      Idl(progs[i], [j \in 1..cnt[i] |->
                            Instruction(<<"i">>,
                                [r \in 1..acnt[<<i, j>>] |-> items[<<<<i, j>>, r>>]],
                                <<>>)])])

\* one schema with one instruction with one argument, of any type of up to
\* MaxWraps wrapper layers above a leaf
EnterTypes ==
    /\ pc = "idle"
    /\ \E n \in 0..MaxWraps : \E w \in [1..n -> WrapKinds] : \E l \in LeafKinds :
      LET t == w \o <<l>> IN
      Enter(<<Idl(<<"b">>, <<Instruction(<<"i">>, <<>>,
                                  <<[name |-> ArgName, ty |-> t]>>)>>)>>)

\* schema sets that vary where one argument of any type of up to
\* MaxGenericWraps wrapper layers stands: in any instruction of any schema,
\* alone or after and before a u8 argument. Every other instruction takes one
\* u8 argument.
PlainArg(n) == [name |-> n, ty |-> <<"U8">>]
EnterGenerics ==
    /\ pc = "idle"
    /\ \E k \in 1..MaxIdls :
         \E cnt \in {c \in InstrCounts(k) : \A i \in 1..k : c[i] >= 1} :
          \E at \in InstrSlots(k, cnt) : \E before, after \in BOOLEAN :
           \E n \in 0..MaxGenericWraps : \E w \in [1..n -> WrapKinds] :
            \E l \in LeafKinds :
              LET varied == (IF before THEN <<PlainArg(<<"y">>)>> ELSE <<>>)
                            \o <<[name |-> ArgName, ty |-> w \o <<l>>]>>
                            \o (IF after THEN <<PlainArg(<<"z">>)>> ELSE <<>>)
              IN Enter([i \in 1..k |->
                          Idl(IF i = 1 THEN <<"b">> ELSE <<"c">>,
                              [j \in 1..cnt[i] |->
                                 Instruction(<<"i">>, <<>>,
                                     IF <<i, j>> = at THEN varied
                                     ELSE <<PlainArg(<<"y">>)>>)])])

\* before the call
Init ==
    /\ idls = <<>>
    /\ pc = "idle"
    /\ idx = 1
    /\ instructions_mappings = EmptyMap
    /\ accounts_mappings = EmptyMap
    /\ all_instructions = <<>>
    /\ all_instruction_inputs = <<>>
    /\ all_instructions_ixops_impls = <<>>
    /\ all_fuzz_accounts = <<>>
    /\ panic_msg = ""
    /\ output = NoOutput

\* runs over schema sets that vary names and accounts
Next ==
    \/ EnterNames
    \/ EnterAccounts
    \/ GetUniqueAccountsNInstructions
    \/ GenerateIdl
    \/ Render

Spec == Init /\ [][Next]_vars

\* runs over schemas that vary the type of one argument
NextTypes ==
    \/ EnterTypes
    \/ GetUniqueAccountsNInstructions
    \/ GenerateIdl
    \/ Render

SpecTypes == Init /\ [][NextTypes]_vars

\* runs over schema sets that vary the position of one typed argument
NextGenerics ==
    \/ EnterGenerics
    \/ GetUniqueAccountsNInstructions
    \/ GenerateIdl
    \/ Render

SpecGenerics == Init /\ [][NextGenerics]_vars

-----------------------------------------------------------------------------
(* Vocabulary of the properties, stated over the input schemas and the     *)
(* generated items, independently of the generator's own bookkeeping.      *)

\* the instructions of the schema set in processing order, as <<idl, position>>
RECURSIVE FlatFrom(_)
FlatFrom(i) ==
    IF i > Len(idls) THEN <<>>
    ELSE [j \in 1..Len(idls[i].instructions) |-> <<i, j>>] \o FlatFrom(i + 1)
FlatInstructions == FlatFrom(1)

InstructionAt(p) == idls[p[1]].instructions[p[2]]
BareInstructionName(p) == to_case_UpperCamel(InstructionAt(p).name)
InstructionPositions == {FlatInstructions[k] : k \in 1..Len(FlatInstructions)}

\* schemas that declare an instruction of this bare name
SchemasDeclaring(bare) ==
    {p[1] : p \in {q \in InstructionPositions : BareInstructionName(q) = bare}}
\* occurrences of this bare name in the whole schema set
Occurrences(bare) == {q \in InstructionPositions : BareInstructionName(q) = bare}

\* the account references of the schema set, as <<idl, instruction, position>>
AccountRefs ==
    {r \in (1..Len(idls)) \X (1..MaxInstrs + 1) \X (1..MaxRefs + 1) :
        /\ r[2] <= Len(idls[r[1]].instructions)
        /\ r[3] <= Len(idls[r[1]].instructions[r[2]].accounts)}
AccountAt(r) == idls[r[1]].instructions[r[2]].accounts[r[3]]
HasComposite == \E r \in AccountRefs : AccountAt(r).kind = "Composite"
BareAccountName(r) == to_case_Snake(AccountAt(r).name)
\* schemas in which at least one instruction references this account name
SchemasReferencing(bare) ==
    {r[1] : r \in {q \in AccountRefs : BareAccountName(q) = bare}}
\* processing order of two references: schema, then instruction, then account
RefBefore(r, q) ==
    \/ r[1] < q[1]
    \/ r[1] = q[1] /\ r[2] < q[2]
    \/ r[1] = q[1] /\ r[2] = q[2] /\ r[3] < q[3]

\* the registry field name the naming rule gives a reference
ExpectedAccountField(r) ==
    IF Cardinality(SchemasReferencing(BareAccountName(r))) >= 2
    THEN BareAccountName(r) \o <<"_">> \o to_case_Snake(idls[r[1]].name)
    ELSE BareAccountName(r)

NamesOf(items) == {items[k].name : k \in 1..Len(items)}
NoDuplicateNames(items) ==
    \A a, b \in 1..Len(items) : a # b => items[a].name # items[b].name

Returned == pc = "done" /\ Len(output) = 1
Module == output[1]

-----------------------------------------------------------------------------
\* C1: whenever generate_source_code completes, no two cases of the
\* FuzzInstruction enum carry the same identifier and no two fields of the
\* FuzzAccounts registry carry the same name.
C1_UniqueIdentifiers ==
    Returned =>
        /\ NoDuplicateNames(Module.fuzz_instruction.variants)
        /\ NoDuplicateNames(Module.fuzz_accounts.fields)

\* C2 as stated: an instruction name declared in exactly one schema is never
\* suffixed; declared in two or more schemas, every occurrence is suffixed
\* with the UpperCamel name of its own schema.
C2_SuffixBySchemaCount ==
    Returned =>
        \A k \in 1..Len(FlatInstructions) :
            LET p == FlatInstructions[k]
                bare == BareInstructionName(p)
            IN Module.fuzz_instruction.variants[k].name =
                  IF Cardinality(SchemasDeclaring(bare)) >= 2
                  THEN bare \o to_case_UpperCamel(idls[p[1]].name)
                  ELSE bare

\* C2 amended: an instruction name that occurs exactly once in the whole
\* schema set is never suffixed; a name that occurs two or more times (in
\* different schemas or repeated inside one schema) has every occurrence
\* suffixed with the UpperCamel name of its own schema.
C2_SuffixByOccurrenceCount ==
    Returned =>
        \A k \in 1..Len(FlatInstructions) :
            LET p == FlatInstructions[k]
                bare == BareInstructionName(p)
            IN Module.fuzz_instruction.variants[k].name =
                  IF Cardinality(Occurrences(bare)) >= 2
                  THEN bare \o to_case_UpperCamel(idls[p[1]].name)
                  ELSE bare

\* C2 witness: a completed run in which one schema alone declares a name
\* twice and both occurrences came out suffixed, and another name is bare.
C2_Witness ==
    /\ Returned
    /\ \E k1, k2 \in 1..Len(FlatInstructions) :
          LET p == FlatInstructions[k1]
              bare == BareInstructionName(p)
          IN /\ Cardinality(Occurrences(bare)) = 2
             /\ Cardinality(SchemasDeclaring(bare)) = 1
             /\ Module.fuzz_instruction.variants[k1].name =
                    bare \o to_case_UpperCamel(idls[p[1]].name)
             /\ Cardinality(Occurrences(BareInstructionName(FlatInstructions[k2]))) = 1
             /\ Module.fuzz_instruction.variants[k2].name =
                    BareInstructionName(FlatInstructions[k2])

\* C3: the registry fields one schema contributes are exactly the names its
\* account references get: the bare snake_case name when one schema alone
\* references it, the bare name followed by '_' and the schema's snake_case
\* name when two or more schemas do.
C3_AccountFieldNames ==
    [][(pc = "generate" /\ pc' = "generate" /\ idx' = idx + 1) =>
          NamesOf(SubSeq(all_fuzz_accounts', Len(all_fuzz_accounts) + 1,
                         Len(all_fuzz_accounts'))) =
          {ExpectedAccountField(r) : r \in {q \in AccountRefs : q[1] = idx}}]_vars

\* C3 witness: a completed run whose registry holds a bare field for an
\* account of one schema and a suffixed field for an account of two schemas.
C3_Witness ==
    /\ Returned
    /\ \A a, b \in 1..Len(idls) : a # b => idls[a].name # idls[b].name
    /\ \E r, q \in AccountRefs :
          /\ Cardinality(SchemasReferencing(BareAccountName(r))) = 1
          /\ BareAccountName(r) \in NamesOf(Module.fuzz_accounts.fields)
          /\ Cardinality(SchemasReferencing(BareAccountName(q))) = 2
          /\ BareAccountName(q) \o <<"_">> \o to_case_Snake(idls[q[1]].name)
                 \in NamesOf(Module.fuzz_accounts.fields)

\* C4: after the counting pass over schemas without composite accounts, the
\* account occurrence map holds exactly the referenced account names, each
\* with the number of distinct schemas that reference it.
C4_AccountCountIsSchemaCount ==
    pc \in {"generate", "done"} =>
        /\ DOMAIN accounts_mappings = {BareAccountName(r) : r \in AccountRefs}
        /\ \A r \in AccountRefs :
              accounts_mappings[BareAccountName(r)] =
                  Cardinality(SchemasReferencing(BareAccountName(r)))

\* C4 witness: the counting pass is over, one schema references an account
\* name more than once, and the name's count is 1.
C4_Witness ==
    /\ pc = "generate"
    /\ \E r, q \in AccountRefs :
          /\ r # q /\ r[1] = q[1]
          /\ BareAccountName(r) = BareAccountName(q)
          /\ accounts_mappings[BareAccountName(r)] = 1

\* C5: a composite account anywhere in the schema set aborts the run in the
\* counting pass: nothing is ever pushed to the four vectors and no module
\* text is returned.
C5_CompositeAborts ==
    HasComposite =>
        /\ pc \in {"start", "panicked"}
        /\ pc = "panicked" => panic_msg = "Composite Accounts are not supported yet!"
        /\ output = NoOutput
        /\ all_instructions = <<>>
        /\ all_instruction_inputs = <<>>
        /\ all_instructions_ixops_impls = <<>>
        /\ all_fuzz_accounts = <<>>

\* C5 witness: the run has aborted on a schema set whose composite account
\* sits in the second schema, after a well-formed first schema.
C5_Witness ==
    /\ pc = "panicked"
    /\ Len(idls) = 2
    /\ \A r \in AccountRefs : AccountAt(r).kind = "Composite" => r[1] = 2
    /\ \E r \in AccountRefs : r[1] = 1
    /\ HasComposite

-----------------------------------------------------------------------------
(* Properties of the Type Mapper and of the get_data stub, over runs on    *)
(* one instruction with one argument.                                      *)

HasArgument == pc # "idle"
ArgumentType == idls[1].instructions[1].args[1].ty
\* n directly nested Array layers somewhere in the type
DirectArrays(t, n) ==
    \E k \in 1..Len(t) :
        /\ k + n - 1 <= Len(t)
        /\ \A m \in k..(k + n - 1) : t[m] = "Array"
OptionsOverArray ==
    <<"Option", "Option", "Option", "Option", "Option", "Array", "U8">>

\* C6: an Array under five nested Options is mapped without a panic, while
\* a type with five directly nested Array layers aborts the run (it is never
\* rendered).
C6_NestingLimit ==
    HasArgument =>
        /\ ArgumentType = OptionsOverArray => pc # "panicked"
        /\ DirectArrays(ArgumentType, NestingLimit) => pc # "done"

\* C7: the fields of the rendered FuzzAccounts registry, over all schemas
\* together, are in lexicographic order of their names.
C7_RegistrySorted ==
    Returned =>
        \A k \in 1..(Len(Module.fuzz_accounts.fields) - 1) :
            ~StrLess(Module.fuzz_accounts.fields[k + 1].name,
                     Module.fuzz_accounts.fields[k].name)

CloneKinds == {"String", "Bytes", "Vec"}
ArgumentInitializer == Module.ixops[1].data[1].expr
FlaggedUserDefined == idl_type_to_syn_type(ArgumentType, 0).is_custom

\* C8 as stated: the get_data initializer is a clone for String, Bytes and
\* Vec arguments, todo!() for every argument the Type Mapper flags
\* is_user_defined, and a by-value copy for every other argument, with no
\* todo!() for a type that is not user-defined. (A Vec of a user-defined type
\* falls under two of the cases: either is accepted.)
C8_InitializerByUserDefinedFlag ==
    Returned =>
        LET top == Head(ArgumentType)
            e == ArgumentInitializer
        IN /\ (top \in CloneKinds /\ ~FlaggedUserDefined)
                 => e = "self.data.field.clone()"
           /\ (top \in CloneKinds /\ FlaggedUserDefined)
                 => e \in {"self.data.field.clone()", "todo!()"}
           /\ (top \notin CloneKinds /\ FlaggedUserDefined) => e = "todo!()"
           /\ (top \notin CloneKinds /\ ~FlaggedUserDefined) => e = "self.data.field"

\* C8 amended: the get_data initializer is chosen by the outermost kind of the
\* argument's type alone: a clone for String, Bytes and Vec, todo!() for a
\* Defined type and for Pubkey, and a by-value copy for every other kind,
\* Option and Array included even when they wrap a user-defined type.
C8_InitializerByOutermostKind ==
    Returned =>
        LET top == Head(ArgumentType)
        IN ArgumentInitializer =
              IF top \in CloneKinds THEN "self.data.field.clone()"
              ELSE IF top \in {"Defined", "Pubkey"} THEN "todo!()"
              ELSE "self.data.field"

\* C8 witness: a rendered stub for an Option<user-defined> argument, flagged
\* is_user_defined by the Type Mapper and copied by value.
C8_Witness ==
    /\ Returned
    /\ ArgumentType = <<"Option", "Defined">>
    /\ FlaggedUserDefined
    /\ ArgumentInitializer = "self.data.field"

-----------------------------------------------------------------------------
\* C9: for every account reference, the rendered registry holds exactly one
\* entry of its resolved name, and that entry's slot is PdaStore exactly when
\* the first reference of that resolved name, in processing order, is a
\* derived account.
C9_OneEntryFirstWins ==
    Returned =>
        \A r \in AccountRefs :
            LET n == ExpectedAccountField(r)
                same == {q \in AccountRefs : ExpectedAccountField(q) = n}
                first == CHOOSE q \in same : \A q2 \in same \ {q} : RefBefore(q, q2)
                fields == Module.fuzz_accounts.fields
                entries == {k \in 1..Len(fields) : fields[k].name = n}
            IN /\ Cardinality(entries) = 1
               /\ \A k \in entries :
                     fields[k].store = "PdaStore" <=> AccountAt(first).pda

\* the identifier the naming rule gives the instruction at position p
ExpectedInstructionIdentifier(p) ==
    IF Cardinality(Occurrences(BareInstructionName(p))) >= 2
    THEN BareInstructionName(p) \o to_case_UpperCamel(idls[p[1]].name)
    ELSE BareInstructionName(p)

\* C10: a completed run over n instructions renders n enum cases, 3n records
\* and n stubs; the k-th case, the k-th record triple (wrapper, accounts,
\* arguments) and the k-th stub belong to the k-th instruction in processing
\* order and carry its resolved identifier X: X(X), X / XAccounts / XData,
\* impl IxOps for X.
C10_ItemsFollowInstructions ==
    Returned =>
        LET n == Len(FlatInstructions)
            variants == Module.fuzz_instruction.variants
        IN /\ Len(variants) = n
           /\ Len(Module.inputs) = 3 * n
           /\ Len(Module.ixops) = n
           /\ \A k \in 1..n :
                 LET X == ExpectedInstructionIdentifier(FlatInstructions[k])
                     ix == InstructionAt(FlatInstructions[k])
                     wrapper == Module.inputs[3 * k - 2]
                     accounts == Module.inputs[3 * k - 1]
                     data == Module.inputs[3 * k]
                 IN /\ variants[k] = [name |-> X, payload |-> X]
                    /\ wrapper.name = X
                    /\ wrapper.fields[1].ty = accounts.name
                    /\ wrapper.fields[2].ty = data.name
                    /\ accounts.name = X \o AccountsSuffix
                    /\ [a \in 1..Len(accounts.fields) |-> accounts.fields[a].name]
                          = [a \in 1..Len(ix.accounts) |-> ix.accounts[a].name]
                    /\ data.name = X \o DataSuffix
                    /\ Len(data.fields) = Len(ix.args)
                    /\ Module.ixops[k].impl_for = X
                    /\ Module.ixops[k].ix_data.name = BareInstructionName(FlatInstructions[k])
                    /\ Module.ixops[k].ix_data.module = idls[FlatInstructions[k][1]].name

\* C10 witness: a rendered module for two schemas of different names with
\* three instructions in all, of which some are suffixed and some are not.
C10_Witness ==
    /\ Returned
    /\ Len(idls) = 2
    /\ idls[1].name # idls[2].name
    /\ idls[1].instructions # <<>> /\ idls[2].instructions # <<>>
    /\ Len(FlatInstructions) = 3
    /\ Len(Module.ixops) = 3
    /\ \E k1, k2 \in 1..3 :
          /\ Module.ixops[k1].impl_for = BareInstructionName(FlatInstructions[k1])
          /\ Module.ixops[k2].impl_for # BareInstructionName(FlatInstructions[k2])

-----------------------------------------------------------------------------
\* the layers of a type that the code refuses: an unbound generic parameter,
\* an array whose length is a generic parameter
GenericKinds == {"Generic", "ArrayGeneric"}
ContainsGeneric(t) == \E k \in 1..Len(t) : t[k] \in GenericKinds
\* the arguments of the schema set, as <<idl, instruction, position>>
ArgumentRefs ==
    {r \in (1..Len(idls)) \X (1..MaxInstrs + 1) \X (1..3) :
        /\ r[2] <= Len(idls[r[1]].instructions)
        /\ r[3] <= Len(idls[r[1]].instructions[r[2]].args)}
ArgumentAt(r) == idls[r[1]].instructions[r[2]].args[r[3]]
GenericArguments == {r \in ArgumentRefs : ContainsGeneric(ArgumentAt(r).ty)}
\* instructions declared by the schemas before schema i
RECURSIVE InstructionsBefore(_)
InstructionsBefore(i) ==
    IF i <= 1 THEN 0 ELSE Len(idls[i - 1].instructions) + InstructionsBefore(i - 1)
GenericPanics ==
    {"Generic currently not supported", "Generic within Array len not supported"}

\* C11: when the type of some argument of some instruction contains, at any
\* level under Option, Vec or Array, an unbound generic parameter or an array
\* of generic length, the run never returns a module: it does not get past the
\* schema that declares the argument, it ends in a panic of the type mapper,
\* the output stays empty, and no input record is ever kept for that schema
\* (so no degraded type is written for the argument).
C11_GenericAborts ==
    \A r \in GenericArguments :
        pc # "idle" =>
            /\ pc \in {"start", "generate", "panicked"}
            /\ output = NoOutput
            /\ idx <= r[1]
            /\ Len(all_instruction_inputs) <= 3 * InstructionsBefore(r[1])
            /\ pc = "panicked" => panic_msg \in GenericPanics

\* a run has panicked on a generic nested under a supported wrapper, in the
\* second argument of the second schema's instruction, after the first
\* schema's items were generated
C11_Witness ==
    /\ pc = "panicked"
    /\ \E r \in GenericArguments :
          /\ r[1] = 2 /\ r[3] = 2
          /\ Head(ArgumentAt(r).ty) \in {"Option", "Vec", "Array"}
          /\ Len(ArgumentAt(r).ty) = 3
    /\ Len(all_instruction_inputs) = 3 * InstructionsBefore(2)
    /\ Len(all_instruction_inputs) > 0

-----------------------------------------------------------------------------
\* the keys of the registry accumulator of schema i
RegistryKeys(i) ==
    DOMAIN FuzzAccountsMap(idls[i],
               get_unique_accounts_n_instructions(idls, EmptyMap, EmptyMap).acc).map
\* one iteration order of the accumulator for each schema from i on
RECURSIVE OrdersFrom(_)
OrdersFrom(i) ==
    IF i > Len(idls) THEN {<<>>}
    ELSE {<<o>> \o rest : o \in IterationOrders(RegistryKeys(i)),
                          rest \in OrdersFrom(i + 1)}
OrderChoices == OrdersFrom(1)

\* the four vectors of a run over `idls` from schema i on, when the
\* accumulator of each schema is iterated in the order ords gives it
RECURSIVE RunFrom(_, _, _, _)
RunFrom(i, ords, maps, acc) ==
    IF i > Len(idls) THEN acc
    ELSE RunFrom(i + 1, ords, maps,
           [variants |-> acc.variants \o get_instruction_variants(idls[i], maps.ins),
            inputs |-> acc.inputs \o get_instruction_inputs(idls[i], maps.ins).items,
            impls |-> acc.impls \o get_instruction_ixops(idls[i], maps.ins),
            accounts |-> acc.accounts
                         \o get_fuzz_accounts(idls[i], maps.acc, ords[i]).items])
\* the module text a run over `idls` returns under these iteration orders
ModuleUnder(ords) ==
    LET r == RunFrom(1, ords,
                     get_unique_accounts_n_instructions(idls, EmptyMap, EmptyMap),
                     [variants |-> <<>>, inputs |-> <<>>, impls |-> <<>>,
                      accounts |-> <<>>])
    IN ModuleDefinition(r.variants, r.inputs, r.impls, r.accounts)

\* C12: generation is deterministic: the module a run returns is the module
\* every run over the same schema sequence returns, whatever order each
\* schema's registry accumulator is iterated in (the occurrence maps are only
\* looked up, never iterated).
C12_Deterministic ==
    Returned => \A ords \in OrderChoices : Module = ModuleUnder(ords)

\* a module was returned for two schemas, one of which has an accumulator of
\* two keys first inserted in descending order, so that iteration orders
\* differ and the sort has work to do
C12_Witness ==
    /\ Returned
    /\ Len(idls) = 2
    /\ Cardinality(OrderChoices) >= 2
    /\ \E i \in 1..Len(idls) :
          /\ Cardinality(RegistryKeys(i)) = 2
          /\ Len(idls[i].instructions[1].accounts) >= 2
          /\ StrLess(to_case_Snake(idls[i].instructions[1].accounts[2].name),
                     to_case_Snake(idls[i].instructions[1].accounts[1].name))

-----------------------------------------------------------------------------
\* C13: in every stub of a returned module, suffixed or not, the implementing
\* type is the instruction's resolved identifier, the instruction-data type is
\* <schema name>::instruction::<UpperCamel instruction name without suffix>
\* and the program id is <schema name>::ID, both of the schema that declares
\* the instruction; a suffixed stub therefore implements a type whose name
\* differs from the instruction-data type it refers to.
C13_SuffixStaysOutOfProgramPath ==
    Returned =>
        \A k \in 1..Len(FlatInstructions) :
            LET p == FlatInstructions[k]
                stub == Module.ixops[k]
                schema == idls[p[1]].name
                suffixed == Cardinality(Occurrences(BareInstructionName(p))) >= 2
            IN /\ stub.impl_for = ExpectedInstructionIdentifier(p)
               /\ stub.ix_data = [module |-> schema, path |-> "instruction",
                                  name |-> BareInstructionName(p)]
               /\ stub.program_id = [module |-> schema, path |-> "ID"]
               /\ suffixed =>
                     stub.impl_for = stub.ix_data.name \o to_case_UpperCamel(schema)
               /\ ~suffixed => stub.impl_for = stub.ix_data.name

\* a returned module in which two schemas of different names declare the same
\* instruction, so both stubs are suffixed and refer to the same unsuffixed
\* instruction name under their own schema, next to an unsuffixed stub
C13_Witness ==
    /\ Returned
    /\ Len(idls) = 2
    /\ idls[1].name # idls[2].name
    /\ \E k1, k2, k3 \in 1..Len(Module.ixops) :
          /\ FlatInstructions[k1][1] = 1 /\ FlatInstructions[k2][1] = 2
          /\ Module.ixops[k1].ix_data.name = Module.ixops[k2].ix_data.name
          /\ Module.ixops[k1].ix_data.module # Module.ixops[k2].ix_data.module
          /\ Module.ixops[k1].program_id.module # Module.ixops[k2].program_id.module
          /\ Module.ixops[k1].impl_for # Module.ixops[k1].ix_data.name
          /\ Module.ixops[k2].impl_for # Module.ixops[k2].ix_data.name
          /\ Module.ixops[k1].impl_for # Module.ixops[k2].impl_for
          /\ Module.ixops[k3].impl_for = Module.ixops[k3].ix_data.name

====
